---- MODULE Spec2Model ----
(***************************************************************************)
(* A model of gfibot's incremental repository sync (src/gfibot/data/       *)
(* update.py): the resolution engine locate_resolved_issues, its           *)
(* persistence step update_resolved_issues and the orchestrator            *)
(* update_repo, over the collections of src/gfibot/collections.py.         *)
(*                                                                         *)
(* Conventions.  A datetime is an integer number of seconds; a field that  *)
(* holds Python's None is NoTime when it is a datetime and None when it is *)
(* a string.  A text is a sequence of one-character strings.  A MongoDB    *)
(* collection is the sequence of its documents in natural (insertion)      *)
(* order.  One repository (Owner, Name) is modelled.                       *)
(***************************************************************************)
EXTENDS Integers, Sequences, FiniteSets, TLC

VARIABLES
    now,              \* the wall clock, datetime.now(timezone.utc)
    up_stars,         \* upstream: the stargazers of the repository
    up_commits,       \* upstream: the commits of the repository
    up_issues,        \* upstream: issues and pull requests, with their details
    db_stars,         \* collection repos.stars
    db_commits,       \* collection repos.commits
    db_issues,        \* collection repos.issues
    db_resolved,      \* collection issues (ResolvedIssue)
    db_repo,          \* collection repos: the documents of (Owner, Name)
    pc,               \* position of update_repo
    repo,             \* update_repo's local `repo`
    since,            \* update_repo's local `since`
    resolved_issues,  \* the list returned by update_resolved_issues
    write_failed,     \* issue numbers whose replace_one raised WriteError
    last_resolve,     \* history: the last two update_resolved_issues calls
    runs              \* number of update_repo calls started

vars == <<now, up_stars, up_commits, up_issues, db_stars, db_commits, db_issues,
          db_resolved, db_repo, pc, repo, since, resolved_issues, write_failed,
          last_resolve, runs>>

----------------------------------------------------------------------------
(* Values *)

None == "None"
NoTime == -1
Owner == "owner"
Name == "name"

\* timedelta(minutes=1), in seconds
OneMinute == 60

\* bounds of the model
MaxCommits == 2
MaxRuns == 2
MaxDates == 3
MaxRefs == 2

Authors == {"alice", "bob"}
\* the instants at which anything happens: they realise the offsets 0, 1, 59,
\* 60 and 61 seconds between a closure and a merge, in both directions
Instants == {0, 1, 2, 61, 62}
\* the first instants of three consecutive calendar months
MonthStarts == {0, 60, 120}

Max(S) == CHOOSE x \in S : \A y \in S : y <= x
Min(S) == CHOOSE x \in S : \A y \in S : x <= y
Range(s) == {s[i] : i \in 1..Len(s)}

\* the time upstream says the repository was created at
RepoCreatedAt == Min(Instants)

----------------------------------------------------------------------------
(* Texts and the closing-keyword pattern *)

UpperCase == <<"A","B","C","D","E","F","G","H","I","J","K","L","M",
               "N","O","P","Q","R","S","T","U","V","W","X","Y","Z">>
LowerCase == <<"a","b","c","d","e","f","g","h","i","j","k","l","m",
               "n","o","p","q","r","s","t","u","v","w","x","y","z">>
DecimalDigits == <<"0","1","2","3","4","5","6","7","8","9">>

\* str.lower(), one character
ToLower ==
    [c \in {UpperCase[k] : k \in 1..26} |->
        LowerCase[CHOOSE k \in 1..26 : UpperCase[k] = c]]
LowerChar(c) == IF c \in DOMAIN ToLower THEN ToLower[c] ELSE c

\* str.lower()
lower(text) == [i \in 1..Len(text) |-> LowerChar(text[i])]

\* \d, and int() of one digit
DigitValue == [c \in {DecimalDigits[k] : k \in 1..10} |->
                 (CHOOSE k \in 1..10 : DecimalDigits[k] = c) - 1]
IsDigit(c) == c \in DOMAIN DigitValue

\* does the literal w occur in s at position i
LiteralAt(s, i, w) ==
    /\ i + Len(w) - 1 <= Len(s)
    /\ \A k \in 1..Len(w) : s[i + k - 1] = w[k]

\* group 1 of the pattern, (close[sd]?|fix(es|ed)?|resolve[sd]?), tried at
\* position i: the positions right after each way the group can match
VerbEnds(s, i) ==
    (IF LiteralAt(s, i, <<"c","l","o","s","e">>)
     THEN {i + 5} \cup (IF i + 5 <= Len(s) /\ s[i + 5] \in {"s", "d"}
                        THEN {i + 6} ELSE {})
     ELSE {})
    \cup
    (IF LiteralAt(s, i, <<"f","i","x">>)
     THEN {i + 3} \cup (IF \/ LiteralAt(s, i + 3, <<"e","s">>)
                           \/ LiteralAt(s, i + 3, <<"e","d">>)
                        THEN {i + 5} ELSE {})
     ELSE {})
    \cup
    (IF LiteralAt(s, i, <<"r","e","s","o","l","v","e">>)
     THEN {i + 7} \cup (IF i + 7 <= Len(s) /\ s[i + 7] \in {"s", "d"}
                        THEN {i + 8} ELSE {})
     ELSE {})

\* \d+ is greedy: the position right after the run of digits that starts at j
RECURSIVE DigitsEnd(_, _)
DigitsEnd(s, j) ==
    IF j <= Len(s) /\ IsDigit(s[j]) THEN DigitsEnd(s, j + 1) ELSE j

\* int() of the digits s[j..e-1]
RECURSIVE ParseInt(_, _, _)
ParseInt(s, j, e) ==
    IF e <= j THEN 0 ELSE ParseInt(s, j, e - 1) * 10 + DigitValue[s[e - 1]]

\* the ends of group 1 after which ` \#(\d+)` matches
MatchVerbEnds(s, i) ==
    {p \in VerbEnds(s, i) :
        /\ LiteralAt(s, p, <<" ", "#">>)
        /\ DigitsEnd(s, p + 2) > p + 2}

\* re.findall from position i: non-overlapping matches, left to right; the
\* optional suffix of the verb is greedy, so the longest verb is tried first
RECURSIVE FindAll(_, _)
FindAll(s, i) ==
    IF i > Len(s) THEN <<>>
    ELSE LET ends == MatchVerbEnds(s, i)
             p == Max(ends)
             e == DigitsEnd(s, p + 2)
         IN  IF ends = {} THEN FindAll(s, i + 1)
             ELSE <<ParseInt(s, p + 2, e)>> \o FindAll(s, e)

\* (variant: the text is not lower-cased before it is matched)
match_issue_numbers_case_sensitive(text) == FindAll(text, 1)

match_issue_numbers(text) == FindAll(lower(text), 1)

\* "\n".join([t for t in text if t is not None]); an absent text is <<None>>
NoText == <<None>>
RECURSIVE JoinLines(_)
JoinLines(texts) ==
    LET present == SelectSeq(texts, LAMBDA t : t # NoText)
    IN  IF present = <<>> THEN <<>>
        ELSE IF Len(present) = 1 THEN present[1]
        ELSE present[1] \o <<"\n">> \o JoinLines(Tail(present))

----------------------------------------------------------------------------
(* The document store *)

\* the filter of a replace_one: equality on the fields of the unique key
\* (owner and name are the same for every document of the one repository)
SameKey(d, doc, key) == \A f \in key : d[f] = doc[f]

\* Collection.replace_one(filter, doc, upsert=True): the first document that
\* matches the filter is replaced in place, and doc is inserted when none does
ReplaceOne(coll, doc, key) ==
    LET found == {k \in 1..Len(coll) : SameKey(coll[k], doc, key)}
    IN  IF found # {} THEN [coll EXCEPT ![Min(found)] = doc]
        ELSE Append(coll, doc)

\* the fields of an upstream issue or pull request that get_issues returns
\* and update_issues stores
IssueDoc(i) ==
    [number |-> i.number, user |-> i.user, is_pull |-> i.is_pull,
     created_at |-> i.created_at, closed_at |-> i.closed_at,
     merged_at |-> i.merged_at, title |-> i.title, body |-> i.body]

\* RepoFetcher.get_pull_detail(number)
get_pull_detail(number) ==
    LET pr == CHOOSE i \in Range(up_issues) : i.number = number
    IN  [comments |-> pr.comments, commits |-> pr.pr_commits]

\* RepoFetcher.get_issue_detail(number)
get_issue_detail(number) ==
    LET i == CHOOSE j \in Range(up_issues) : j.number = number
    IN  [events |-> i.events]

----------------------------------------------------------------------------
(* locate_resolved_issues *)

\* resolved_in is a commit hash (a str) or a pull request number (an int)
CommitHash(sha) == [type |-> "str", value |-> sha]
PullNumber(number) == [type |-> "int", value |-> number]

\* (variant: closed_at is not compared with `since`)
all_issues_ever_closed(s) ==
    SelectSeq(db_issues, LAMBDA i : ~i.is_pull /\ i.closed_at # NoTime)

\* db.repos.issues.find({"is_pull": False, "closed_at": {"$gte": since}})
all_issues(s) ==
    SelectSeq(db_issues,
              LAMBDA i : ~i.is_pull /\ i.closed_at # NoTime /\ i.closed_at >= s)

\* sorted(..., key=lambda c: c["authored_at"]) is stable
InsertByAuthoredAt(sorted, c) ==
    LET k == Cardinality({i \in 1..Len(sorted) :
                            sorted[i].authored_at <= c.authored_at})
    IN  SubSeq(sorted, 1, k) \o <<c>> \o SubSeq(sorted, k + 1, Len(sorted))

RECURSIVE SortByAuthoredAt(_)
SortByAuthoredAt(commits) ==
    IF commits = <<>> THEN <<>>
    ELSE InsertByAuthoredAt(SortByAuthoredAt(SubSeq(commits, 1, Len(commits) - 1)),
                            commits[Len(commits)])

\* (variant: the commits are left in the order the store returns them in)
all_commits_unsorted == db_commits

\* (variant: the query keeps the commits of the current window only)
all_commits_in_window ==
    SortByAuthoredAt(SelectSeq(db_commits, LAMBDA c : c.committed_at >= since))

\* sorted(db.repos.commits.find({"owner": ..., "name": ...}), key=...)
all_commits == SortByAuthoredAt(db_commits)

\* set(map(lambda i: i["number"], all_issues))
closed_nums(issues) == {i.number : i \in Range(issues)}

\* author2commits[author]: a defaultdict(list), empty for an unknown author
author2commits(commits, author) == SelectSeq(commits, LAMBDA c : c.author = author)

\* (variant: the comparison of the commit pass is not strict)
CommitsBeforeCommitInclusive(commits, c) ==
    {c2.sha : c2 \in {x \in Range(author2commits(commits, c.author)) :
                        x.authored_at <= c.authored_at}}

\* commits_before of the commit pass
CommitsBeforeCommit(commits, c) ==
    {c2.sha : c2 \in {x \in Range(author2commits(commits, c.author)) :
                        x.authored_at < c.authored_at}}

\* (variant: the commits of the pull request itself are counted)
CommitsBeforePullAll(commits, pr, pr_details) ==
    {c.sha : c \in {x \in Range(author2commits(commits, pr.user)) :
                      x.authored_at < pr.merged_at}}

\* commits_before of the pull request pass
CommitsBeforePull(commits, pr, pr_details) ==
    {c.sha : c \in {x \in Range(author2commits(commits, pr.user)) :
                      /\ x.authored_at < pr.merged_at
                      /\ x.sha \notin pr_details.commits}}

\* (variant: resolved is a list, and every candidate is appended to it)
SetResolvedAppend(resolved, num, resolver, resolved_in, commit_num) ==
    Append(resolved,
           [owner |-> Owner, name |-> Name, number |-> num,
            resolver |-> resolver, resolved_in |-> resolved_in,
            resolver_commit_num |-> commit_num])

\* the four assignments to resolved[num]: the entry keeps its place in the
\* dict when it exists and is appended (from the default) when it does not
SetResolved(resolved, num, resolver, resolved_in, commit_num) ==
    LET entry == [owner |-> Owner, name |-> Name, number |-> num,
                  resolver |-> resolver, resolved_in |-> resolved_in,
                  resolver_commit_num |-> commit_num]
    IN  ReplaceOne(resolved, entry, {"number"})

\* for num in match_issue_numbers(c["message"]), from the k-th number on
RECURSIVE CommitNumbers(_, _, _, _, _, _)
CommitNumbers(resolved, commits, c, nums, k, closed) ==
    IF k > Len(nums) THEN resolved
    ELSE IF nums[k] \notin closed
         THEN CommitNumbers(resolved, commits, c, nums, k + 1, closed)
         ELSE CommitNumbers(
                 SetResolved(resolved, nums[k], c.author, CommitHash(c.sha),
                             Cardinality(CommitsBeforeCommit(commits, c))),
                 commits, c, nums, k + 1, closed)

\* (variant: a commit without an author is not skipped)
RECURSIVE CommitPassAnyAuthor(_, _, _, _)
CommitPassAnyAuthor(resolved, commits, k, closed) ==
    IF k > Len(commits) THEN resolved
    ELSE CommitPassAnyAuthor(
             CommitNumbers(resolved, commits, commits[k],
                           match_issue_numbers(commits[k].message), 1, closed),
             commits, k + 1, closed)

\* for c in all_commits, from the k-th commit on
RECURSIVE CommitPass(_, _, _, _)
CommitPass(resolved, commits, k, closed) ==
    IF k > Len(commits) THEN resolved
    ELSE LET c == commits[k]
         IN  IF c.author = None
             THEN CommitPass(resolved, commits, k + 1, closed)
             ELSE CommitPass(
                     CommitNumbers(resolved, commits, c,
                                   match_issue_numbers(c.message), 1, closed),
                     commits, k + 1, closed)

\* (variant: the window is closed, $gte and $lte)
PullsMergedAroundInclusive(closed_at) ==
    LET t1 == closed_at - OneMinute
        t2 == closed_at + OneMinute
    IN  SelectSeq(db_issues,
                  LAMBDA p : /\ p.is_pull
                             /\ p.merged_at # NoTime
                             /\ p.merged_at >= t1
                             /\ p.merged_at <= t2)

\* db.repos.issues.find({"is_pull": True, "merged_at": {"$gt": t1, "$lt": t2}})
PullsMergedAround(closed_at) ==
    LET t1 == closed_at - OneMinute
        t2 == closed_at + OneMinute
    IN  SelectSeq(db_issues,
                  LAMBDA p : /\ p.is_pull
                             /\ p.merged_at # NoTime
                             /\ p.merged_at > t1
                             /\ p.merged_at < t2)

\* the text of a pull request: title, body and comments
PullText(pr, pr_details) ==
    JoinLines(<<pr.title, pr.body>> \o pr_details.comments)

\* (variant: a pull request in the window is accepted whatever its text)
RECURSIVE PullCandidatesAnyText(_, _, _, _, _)
PullCandidatesAnyText(resolved, commits, issue, prs, k) ==
    IF k > Len(prs) THEN resolved
    ELSE LET pr == prs[k]
             pr_details == get_pull_detail(pr.number)
         IN  PullCandidatesAnyText(
                 SetResolved(resolved, issue.number, pr.user,
                             PullNumber(pr.number),
                             Cardinality(CommitsBeforePull(commits, pr, pr_details))),
                 commits, issue, prs, k + 1)

\* for pr in prs, from the k-th pull request on
RECURSIVE PullCandidates(_, _, _, _, _)
PullCandidates(resolved, commits, issue, prs, k) ==
    IF k > Len(prs) THEN resolved
    ELSE LET pr == prs[k]
             pr_details == get_pull_detail(pr.number)
         IN  IF issue.number \in Range(match_issue_numbers(PullText(pr, pr_details)))
             THEN PullCandidates(
                     SetResolved(resolved, issue.number, pr.user,
                                 PullNumber(pr.number),
                                 Cardinality(CommitsBeforePull(commits, pr, pr_details))),
                     commits, issue, prs, k + 1)
             ELSE PullCandidates(resolved, commits, issue, prs, k + 1)

\* for issue in all_issues, from the k-th issue on
RECURSIVE PullPass(_, _, _, _)
PullPass(resolved, commits, issues, k) ==
    IF k > Len(issues) THEN resolved
    ELSE PullPass(
             PullCandidates(resolved, commits, issues[k],
                            PullsMergedAround(issues[k].closed_at), 1),
             commits, issues, k + 1)

\* (variant: the pull request pass runs first and the commit pass overwrites)
locate_resolved_issues_commits_last(s) ==
    LET issues == all_issues(s)
        commits == all_commits
    IN  CommitPass(PullPass(<<>>, commits, issues, 1),
                   commits, 1, closed_nums(issues))

\* list(resolved.values()): the commit pass seeds the dict, the pull request
\* pass overwrites it
locate_resolved_issues(s) ==
    LET issues == all_issues(s)
        commits == all_commits
    IN  PullPass(CommitPass(<<>>, commits, 1, closed_nums(issues)),
                 commits, issues, 1)

----------------------------------------------------------------------------
(* The Repository Fetcher, as the clock shows the upstream history *)

\* an upstream issue or pull request as it is at the time `now`
AsOfNow(i) ==
    [i EXCEPT !.closed_at = IF i.closed_at <= now THEN i.closed_at ELSE NoTime,
              !.merged_at = IF i.merged_at <= now THEN i.merged_at ELSE NoTime]

LastUpdate(i) == Max({i.created_at, i.closed_at, i.merged_at})

\* RepoFetcher.get_stats()
get_stats ==
    [owner |-> Owner, name |-> Name, language |-> None,
     repo_created_at |-> RepoCreatedAt]

\* RepoFetcher.get_stars(since)
get_stars(s) ==
    SelectSeq(up_stars, LAMBDA x : x.starred_at >= s /\ x.starred_at <= now)

\* RepoFetcher.get_commits(since)
get_commits(s) ==
    SelectSeq(up_commits, LAMBDA c : c.committed_at >= s /\ c.committed_at <= now)

\* RepoFetcher.get_issues(since): the issues and pull requests updated since
get_issues(s) ==
    LET visible == SelectSeq(up_issues, LAMBDA i : i.created_at <= now)
        current == [k \in 1..Len(visible) |-> IssueDoc(AsOfNow(visible[k]))]
    IN  SelectSeq(current, LAMBDA i : LastUpdate(i) >= s)

----------------------------------------------------------------------------
(* count_by_month *)

\* datetime(year=d.year, month=d.month, day=1)
MonthOf(d) == Max({m \in MonthStarts : m <= d})

RECURSIVE SortedMonths(_)
SortedMonths(months) ==
    IF months = {} THEN <<>>
    ELSE <<Min(months)>> \o SortedMonths(months \ {Min(months)})

\* (variant: the buckets are left in the order of the Counter, the order in
\* which their months first occur in the input)
RECURSIVE count_by_month_unsorted(_)
count_by_month_unsorted(dates) ==
    IF dates = <<>> THEN <<>>
    ELSE LET n == Len(dates)
             before == count_by_month_unsorted(SubSeq(dates, 1, n - 1))
             seen == {j \in 1..Len(before) : before[j].month = MonthOf(dates[n])}
         IN  IF seen = {}
             THEN Append(before, [month |-> MonthOf(dates[n]), count |-> 1])
             ELSE [before EXCEPT ![Min(seen)].count = @ + 1]

\* Counter(map(lambda d: (d.year, d.month), dates)), one bucket per key,
\* sorted by the month
count_by_month(dates) ==
    LET months == SortedMonths({MonthOf(dates[k]) : k \in 1..Len(dates)})
    IN  [j \in 1..Len(months) |->
            [month |-> months[j],
             count |-> Cardinality({k \in 1..Len(dates) :
                                      MonthOf(dates[k]) = months[j]})]]

Field(docs, f) == [k \in 1..Len(docs) |-> docs[k][f]]

----------------------------------------------------------------------------
(* update_repo and the functions it calls *)

NoRepo == [owner |-> None]

\* replace_one(..., upsert=True) of every document of a list, in order
RECURSIVE UpsertAll(_, _, _)
UpsertAll(coll, docs, key) ==
    IF docs = <<>> THEN coll
    ELSE UpsertAll(ReplaceOne(coll, Head(docs), key), Tail(docs), key)

\* the document update_repo_stat creates for a repository that is not stored
NewRepo ==
    [created_at |-> now, updated_at |-> NoTime, owner |-> Owner, name |-> Name,
     language |-> None, repo_created_at |-> NoTime, monthly_stars |-> <<>>,
     monthly_commits |-> <<>>, monthly_issues |-> <<>>]

\* for k, v in fetcher.get_stats().items(): repo[k] = v
WithStats(r) ==
    [k \in DOMAIN r \cup DOMAIN get_stats |->
        IF k \in DOMAIN get_stats THEN get_stats[k] ELSE r[k]]

\* update_repo_stat: the stored document, or a new one, with the fetched stats
update_repo_stat ==
    WithStats(IF db_repo = <<>> THEN NewRepo ELSE db_repo[1])

\* (variant: `since` is always the creation time of the repository)
StartUpdateFromCreation ==
    /\ pc = "idle"
    /\ runs < MaxRuns
    /\ runs' = runs + 1
    /\ LET r == update_repo_stat
       IN  /\ since' = r.repo_created_at
           /\ repo' = [k \in DOMAIN r |-> IF k = "updated_at" THEN now ELSE r[k]]
    /\ pc' = "stars"
    /\ UNCHANGED <<now, up_stars, up_commits, up_issues, db_stars, db_commits,
                   db_issues, db_resolved, db_repo, resolved_issues,
                   write_failed, last_resolve>>

\* update_repo up to its first write: the stats, `since`, and the new
\* updated_at in the local document only
StartUpdate ==
    /\ pc = "idle"
    /\ runs < MaxRuns
    /\ runs' = runs + 1
    /\ LET r == update_repo_stat
       IN  /\ since' = IF r.updated_at = NoTime THEN r.repo_created_at
                       ELSE r.updated_at
           /\ repo' = [k \in DOMAIN r |-> IF k = "updated_at" THEN now ELSE r[k]]
    /\ pc' = "stars"
    /\ UNCHANGED <<now, up_stars, up_commits, up_issues, db_stars, db_commits,
                   db_issues, db_resolved, db_repo, resolved_issues,
                   write_failed, last_resolve>>

WithField(r, f, v) == [k \in DOMAIN r \cup {f} |-> IF k = f THEN v ELSE r[k]]

\* update_stars, and the monthly_stars computed from what it returns
UpdateStars ==
    /\ pc = "stars"
    /\ LET stars == get_stars(since)
       IN  /\ db_stars' = UpsertAll(db_stars, stars, {"user"})
           /\ repo' = WithField(repo, "monthly_stars",
                        count_by_month(Field(stars, "starred_at")))
    /\ pc' = "commits"
    /\ UNCHANGED <<now, up_stars, up_commits, up_issues, db_commits, db_issues,
                   db_resolved, db_repo, since, resolved_issues, write_failed,
                   last_resolve, runs>>

\* update_commits, and the monthly_commits computed from what it returns
UpdateCommits ==
    /\ pc = "commits"
    /\ LET commits == get_commits(since)
       IN  /\ db_commits' = UpsertAll(db_commits, commits, {"sha"})
           /\ repo' = WithField(repo, "monthly_commits",
                        count_by_month(Field(commits, "committed_at")))
    /\ pc' = "issues"
    /\ UNCHANGED <<now, up_stars, up_commits, up_issues, db_stars, db_issues,
                   db_resolved, db_repo, since, resolved_issues, write_failed,
                   last_resolve, runs>>

\* (variant: the repository document is saved right after the issues)
UpdateIssuesAndSave ==
    /\ pc = "issues"
    /\ db_issues' = UpsertAll(db_issues, get_issues(since), {"number"})
    /\ db_repo' = UpsertAll(db_repo, <<repo>>, {"owner", "name"})
    /\ pc' = "resolve"
    /\ UNCHANGED <<now, up_stars, up_commits, up_issues, db_stars, db_commits,
                   db_resolved, repo, since, resolved_issues, write_failed,
                   last_resolve, runs>>

\* update_issues, and the monthly_issues and monthly_pulls computed from what
\* it returns
UpdateIssues ==
    /\ pc = "issues"
    /\ LET issues == get_issues(since)
           created(l) == Field(l, "created_at")
       IN  /\ db_issues' = UpsertAll(db_issues, issues, {"number"})
           /\ repo' = WithField(
                        WithField(repo, "monthly_issues",
                            count_by_month(created(
                                SelectSeq(issues, LAMBDA i : ~i.is_pull)))),
                        "monthly_pulls",
                        count_by_month(created(
                            SelectSeq(issues, LAMBDA i : i.is_pull))))
    /\ pc' = "resolve"
    /\ UNCHANGED <<now, up_stars, up_commits, up_issues, db_stars, db_commits,
                   db_resolved, db_repo, since, resolved_issues, write_failed,
                   last_resolve, runs>>

\* resolved["events"] = fetcher.get_issue_detail(resolved["number"])["events"]
WithEvents(located) ==
    [k \in 1..Len(located) |->
        WithField(located[k], "events", get_issue_detail(located[k].number).events)]

\* (variant: the documents are inserted, not upserted by their key)
PersistResolvedInsert(coll, docs, failed) ==
    coll \o SelectSeq(docs, LAMBDA r : r.number \notin failed)

\* (variant: the try is around the loop, so the first WriteError ends it)
PersistResolvedUntilError(coll, docs, failed) ==
    LET bad == {k \in 1..Len(docs) : docs[k].number \in failed}
        done == IF bad = {} THEN docs ELSE SubSeq(docs, 1, Min(bad) - 1)
    IN  UpsertAll(coll, done, {"owner", "name", "number"})

\* the writes of update_resolved_issues: a replace_one that raises WriteError
\* writes nothing, is logged, and the loop goes on
PersistResolved(coll, docs, failed) ==
    UpsertAll(coll, SelectSeq(docs, LAMBDA r : r.number \notin failed),
              {"owner", "name", "number"})

\* update_resolved_issues(fetcher, since)
UpdateResolvedIssues ==
    /\ pc = "resolve"
    /\ LET found == WithEvents(locate_resolved_issues(since))
       IN  \E failed \in SUBSET {r.number : r \in Range(found)} :
              /\ resolved_issues' = found
              /\ write_failed' = failed
              /\ db_resolved' = PersistResolved(db_resolved, found, failed)
    /\ last_resolve' = <<[since |-> since, db_issues |-> db_issues,
                          db_commits |-> db_commits, found |-> resolved_issues',
                          failed |-> write_failed', stored |-> db_resolved']>>
                        \o SubSeq(last_resolve, 1, Min({1, Len(last_resolve)}))
    /\ pc' = "save"
    /\ UNCHANGED <<now, up_stars, up_commits, up_issues, db_stars, db_commits,
                   db_issues, db_repo, repo, since, runs>>

\* db.repos.replace_one({"owner": ..., "name": ...}, repo, upsert=True), the
\* last write of update_repo; what follows it only logs
SaveRepo ==
    /\ pc = "save"
    /\ db_repo' = UpsertAll(db_repo, <<repo>>, {"owner", "name"})
    /\ pc' = "idle"
    /\ repo' = NoRepo
    /\ since' = NoTime
    /\ resolved_issues' = <<>>
    /\ write_failed' = {}
    /\ UNCHANGED <<now, up_stars, up_commits, up_issues, db_stars, db_commits,
                   db_issues, db_resolved, last_resolve, runs>>

\* update_repo is cancelled, or an uncaught exception ends it, before a step
Abort ==
    /\ pc \notin {"idle"}
    /\ pc' = "idle"
    /\ repo' = NoRepo
    /\ since' = NoTime
    /\ resolved_issues' = <<>>
    /\ write_failed' = {}
    /\ UNCHANGED <<now, up_stars, up_commits, up_issues, db_stars, db_commits,
                   db_issues, db_resolved, db_repo, last_resolve, runs>>

\* time passes between two runs of the batch job
Tick ==
    /\ pc = "idle"
    /\ now < Max(Instants)
    /\ now' = Min({t \in Instants : t > now})
    /\ UNCHANGED <<up_stars, up_commits, up_issues, db_stars, db_commits,
                   db_issues, db_resolved, db_repo, pc, repo, since,
                   resolved_issues, write_failed, last_resolve, runs>>

----------------------------------------------------------------------------
(* Upstream histories *)

SeeIssue1 == <<"s","e","e"," ","#","1">>
FixesIssue1 == <<"f","i","x","e","s"," ","#","1">>
FixesBoth == <<"f","i","x","e","s"," ","#","1",","," ","C","l","o","s","e","s"," ","#","3">>
FixedIssue1 == <<"F","I","X","E","D"," ","#","1">>
ResolveIssue1 == <<"r","e","s","o","l","v","e"," ","#","1">>
PlainTitle == <<"w","i","p">>

CommitOf(sha, author, t, message) ==
    [sha |-> sha, author |-> author, authored_at |-> t, committed_at |-> t,
     message |-> message]

\* the histories of at most MaxCommits commits, numbered in the order of push
CommitHistories(authors, times, messages) ==
    UNION {{[k \in 1..n |-> CommitOf(k, h[k][1], h[k][2], h[k][3])] :
              h \in [1..n -> authors \X times \X messages]} : n \in 0..MaxCommits}

IssueOf(number, user, created, closed) ==
    [number |-> number, user |-> user, is_pull |-> FALSE,
     created_at |-> created, closed_at |-> closed, merged_at |-> NoTime,
     title |-> PlainTitle, body |-> NoText, comments |-> <<>>,
     pr_commits |-> {},
     events |-> IF closed = NoTime THEN <<>>
                ELSE <<[type |-> "closed", actor |-> user, time |-> closed]>>]

\* a merged pull request is closed when it is merged
PullOf(number, user, created, merged, text, commits) ==
    [number |-> number, user |-> user, is_pull |-> TRUE,
     created_at |-> created, closed_at |-> merged, merged_at |-> merged,
     title |-> text.title, body |-> NoText, comments |-> text.comments,
     pr_commits |-> commits, events |-> <<>>]

PullTexts ==
    {[title |-> PlainTitle, comments |-> <<>>],
     [title |-> FixedIssue1, comments |-> <<>>],
     [title |-> PlainTitle, comments |-> <<SeeIssue1, ResolveIssue1>>]}

----------------------------------------------------------------------------
(* Specifications *)

\* The sync of a repository from the first run on: the upstream history is
\* fixed, the clock shows more and more of it, and update_repo runs, to its
\* end or not, at most MaxRuns times.
Init ==
    /\ now = Min(Instants)
    /\ up_stars = <<[user |-> "carol", starred_at |-> 1]>>
    /\ up_commits \in CommitHistories({"alice"}, {0, 61}, {FixesBoth})
    /\ \E closed1 \in {2, 61} :
          up_issues = <<IssueOf(1, "alice", 0, closed1),
                        PullOf(2, "bob", 0, 61,
                               [title |-> FixedIssue1, comments |-> <<>>], {}),
                        IssueOf(3, "bob", 1, 61)>>
    /\ db_stars = <<>>
    /\ db_commits = <<>>
    /\ db_issues = <<>>
    /\ db_resolved = <<>>
    /\ db_repo = <<>>
    /\ pc = "idle"
    /\ repo = NoRepo
    /\ since = NoTime
    /\ resolved_issues = <<>>
    /\ write_failed = {}
    /\ last_resolve = <<>>
    /\ runs = 0

Next ==
    \/ StartUpdate
    \/ UpdateStars
    \/ UpdateCommits
    \/ UpdateIssues
    \/ UpdateResolvedIssues
    \/ SaveRepo
    \/ Abort
    \/ Tick

Spec == Init /\ [][Next]_vars

\* update_resolved_issues on its own: a run that has stored the whole upstream
\* history is about to call it.  The inputs are two families: the closure and
\* the merge at every pair of instants, and the commits of two authors and of
\* no author around a closure at 61.  The monthly series of the local
\* document, which update_resolved_issues does not read, are left empty.
InitLocate ==
    /\ now = Max(Instants)
    /\ up_stars = <<>>
    /\ up_commits \in CommitHistories(Authors \cup {None}, {0, 61},
                                      {SeeIssue1, FixesIssue1})
    /\ \E closed \in {NoTime, 1, 2, 61}, merged \in {NoTime} \cup Instants,
          user \in Authors, text \in PullTexts, commits \in SUBSET {1} :
          /\ \/ /\ Len(up_commits) <= 1
                /\ \A k \in 1..Len(up_commits) :
                      up_commits[k].author = "alice" /\ up_commits[k].authored_at = 0
                /\ user = "alice"
                /\ commits = {}
                /\ since \in {RepoCreatedAt, 2}
             \/ /\ closed = 61
                /\ merged \in {61, 62}
                /\ text.comments = <<>>
                /\ since = RepoCreatedAt
          /\ up_issues = <<IssueOf(1, "alice", 0, closed),
                           PullOf(2, user, 0, merged, text, commits)>>
    /\ db_stars = <<>>
    /\ db_commits = up_commits
    /\ db_issues = [k \in 1..Len(up_issues) |-> IssueDoc(up_issues[k])]
    /\ db_resolved = <<>>
    /\ db_repo = IF since = RepoCreatedAt THEN <<>>
                 ELSE <<[WithStats(NewRepo) EXCEPT !.updated_at = since]>>
    /\ pc = "resolve"
    /\ repo = WithField([WithStats(NewRepo) EXCEPT !.updated_at = now],
                        "monthly_pulls", <<>>)
    /\ resolved_issues = <<>>
    /\ write_failed = {}
    /\ last_resolve = <<>>
    /\ runs = 1

SpecLocate == InitLocate /\ [][UpdateResolvedIssues]_vars

\* the dates given to count_by_month: in the first and in the third month, at
\* the first instant of a month and after it, none in the second month
CountDates == {0, 1, 61, 120, 121}

\* count_by_month on its own: a first run is about to call update_stars, and
\* upstream has at most MaxDates stars, at any dates and in any order
InitCount ==
    /\ now = Max(CountDates)
    /\ up_stars \in UNION {[1..n -> [user : {"carol"}, starred_at : CountDates]] :
                            n \in 0..MaxDates}
    /\ up_commits = <<>>
    /\ up_issues = <<>>
    /\ db_stars = <<>>
    /\ db_commits = <<>>
    /\ db_issues = <<>>
    /\ db_resolved = <<>>
    /\ db_repo = <<>>
    /\ pc = "stars"
    /\ repo = [WithStats(NewRepo) EXCEPT !.updated_at = now]
    /\ since = RepoCreatedAt
    /\ resolved_issues = <<>>
    /\ write_failed = {}
    /\ last_resolve = <<>>
    /\ runs = 1

SpecCount == InitCount /\ [][UpdateStars]_vars

\* the nine closing verbs, in lower case
ClosingVerbs ==
    {<<"c","l","o","s","e">>, <<"c","l","o","s","e","s">>,
     <<"c","l","o","s","e","d">>, <<"f","i","x">>, <<"f","i","x","e","s">>,
     <<"f","i","x","e","d">>, <<"r","e","s","o","l","v","e">>,
     <<"r","e","s","o","l","v","e","s">>, <<"r","e","s","o","l","v","e","d">>}

\* a verb in lower case, in upper case, or capitalised
UpperChar(c) ==
    IF \E k \in 1..26 : LowerCase[k] = c
    THEN UpperCase[CHOOSE k \in 1..26 : LowerCase[k] = c] ELSE c
InCase(w, case) ==
    [k \in 1..Len(w) |->
        IF case = "upper" \/ (case = "title" /\ k = 1) THEN UpperChar(w[k])
        ELSE w[k]]

\* the ways a text puts a verb and a number together, "closes #7" and others
ReferenceForms ==
    {"space-hash", "hash", "space", "nothing", "two-spaces", "number-first"}
Reference(w, form, digits) ==
    CASE form = "space-hash" -> w \o <<" ", "#">> \o digits
      [] form = "hash" -> w \o <<"#">> \o digits
      [] form = "space" -> w \o <<" ">> \o digits
      [] form = "nothing" -> w \o digits
      [] form = "two-spaces" -> w \o <<" ", " ", "#">> \o digits
      [] form = "number-first" -> <<"#">> \o digits \o <<" ">> \o w

\* what may follow the first reference of a text
FurtherReferences ==
    {<<",", " ", "f","i","x","e","s"," ","#","7">>,
     <<" ", "a","n","d"," ","C","l","o","s","e","D"," ","#","1","2">>,
     <<",", " ", "s","e","e"," ","#","1","2">>}

RECURSIVE ReferenceTails(_)
ReferenceTails(n) ==
    IF n = 0 THEN {<<>>}
    ELSE ReferenceTails(n - 1)
         \cup {t \o f : t \in ReferenceTails(n - 1), f \in FurtherReferences}

\* the texts given to match_issue_numbers: a verb in some case put together
\* with 7 or 12 in some form, followed by at most MaxRefs - 1 more references
MatchTexts ==
    {Reference(InCase(w, case), form, digits) \o tail :
        w \in ClosingVerbs, case \in {"lower", "upper", "title"},
        form \in ReferenceForms, digits \in {<<"7">>, <<"1", "2">>},
        tail \in ReferenceTails(MaxRefs - 1)}

\* the texts that say "fixes #7" or "fixes #12", alone or before more
PlainReferences ==
    {Reference(<<"f","i","x","e","s">>, "space-hash", digits) \o tail :
        digits \in {<<"7">>, <<"1", "2">>}, tail \in ReferenceTails(MaxRefs - 1)}

\* what the numbers 7 and 12 are in the repository: two issues closed at 61;
\* an open issue and a merged pull request that says "fixes #7"; an issue
\* closed at 1 and one closed at 61; nothing and an issue closed at 61
BothClosed == <<IssueOf(7, "alice", 0, 61), IssueOf(12, "bob", 0, 61)>>
Populations ==
    {BothClosed,
     <<IssueOf(7, "alice", 0, NoTime),
       PullOf(12, "bob", 0, 61,
              [title |-> <<"f","i","x","e","s"," ","#","7">>, comments |-> <<>>],
              {})>>,
     <<IssueOf(7, "alice", 0, 1), IssueOf(12, "bob", 0, 61)>>,
     <<IssueOf(12, "bob", 0, 61)>>}

\* match_issue_numbers on its own: the run has stored one commit, of alice,
\* with the text as its message, and is about to call update_resolved_issues.
\* Every text meets two issues closed since the creation of the repository;
\* the plain references meet every population, with a watermark at the
\* creation of the repository or at 2.
InitMatch ==
    /\ now = Max(Instants)
    /\ up_stars = <<>>
    /\ \E text \in MatchTexts, issues \in Populations :
          /\ \/ /\ issues = BothClosed
                /\ since = RepoCreatedAt
             \/ /\ text \in PlainReferences
                /\ since \in {RepoCreatedAt, 2}
          /\ up_commits = <<CommitOf(1, "alice", 0, text)>>
          /\ up_issues = issues
    /\ db_stars = <<>>
    /\ db_commits = up_commits
    /\ db_issues = [k \in 1..Len(up_issues) |-> IssueDoc(up_issues[k])]
    /\ db_resolved = <<>>
    /\ db_repo = IF since = RepoCreatedAt THEN <<>>
                 ELSE <<[WithStats(NewRepo) EXCEPT !.updated_at = since]>>
    /\ pc = "resolve"
    /\ repo = WithField([WithStats(NewRepo) EXCEPT !.updated_at = now],
                        "monthly_pulls", <<>>)
    /\ resolved_issues = <<>>
    /\ write_failed = {}
    /\ last_resolve = <<>>
    /\ runs = 1

SpecMatch == InitMatch /\ [][UpdateResolvedIssues]_vars

----------------------------------------------------------------------------
(* What the claims speak of, stated on the stored data *)

\* update_resolved_issues has returned and update_repo has not gone on
Located == pc = "save"

StoredIssues == {i \in Range(db_issues) : ~i.is_pull}
StoredPulls == {p \in Range(db_issues) : p.is_pull}
StoredCommits == Range(db_commits)

\* the issues closed on or after the watermark of the run
NewlyClosed == {i \in StoredIssues : i.closed_at # NoTime /\ i.closed_at >= since}

\* the commits whose message names issue n after a closing keyword
ReferringCommits(n) ==
    {c \in StoredCommits : n \in Range(match_issue_numbers(c.message))}

\* a commit candidate for issue n: a referring commit with an author
CommitCandidates(n) == {c \in ReferringCommits(n) : c.author # None}

\* the pull requests whose title, body or comments name issue n after a
\* closing keyword
ReferringPulls(n) ==
    {p \in StoredPulls :
        n \in Range(match_issue_numbers(PullText(p, get_pull_detail(p.number))))}

\* signed distance in seconds from the closure of issue i to the merge of p
MergeOffset(i, p) == p.merged_at - i.closed_at

\* a pull request candidate for issue i: merged within the minute around the
\* closure, and referring to the issue
PullCandidatesOf(i) ==
    {p \in ReferringPulls(i.number) :
        /\ p.merged_at # NoTime
        /\ MergeOffset(i, p) > -OneMinute
        /\ MergeOffset(i, p) < OneMinute}

RecordsOf(n) == {r \in Range(resolved_issues) : r.number = n}

\* the author's commits authored strictly before t
PriorCommits(author, t) ==
    {c \in StoredCommits : c.author = author /\ c.authored_at < t}

\* the prior commits of a pull request's author that are not part of it
PriorCommitsOutsidePull(p) ==
    {c \in PriorCommits(p.user, p.merged_at) :
        c.sha \notin get_pull_detail(p.number).commits}

IsByPull(r, p) ==
    /\ r.resolved_in = PullNumber(p.number)
    /\ r.resolver = p.user
    /\ r.resolver_commit_num = Cardinality(PriorCommitsOutsidePull(p))

----------------------------------------------------------------------------
(* Claims *)

\* C1: a newly closed issue that has both a commit candidate and a pull
\* request candidate gets a record whose artifact, resolver and prior-commit
\* count are those of a pull request candidate, never those of the commit.
C1_PullRequestWins ==
    Located =>
        \A i \in NewlyClosed :
            (CommitCandidates(i.number) # {} /\ PullCandidatesOf(i) # {}) =>
                /\ RecordsOf(i.number) # {}
                /\ \A r \in RecordsOf(i.number) :
                      /\ r.resolved_in.type = "int"
                      /\ \E p \in PullCandidatesOf(i) : IsByPull(r, p)

\* C1, its case: an issue with a commit candidate by one author and a pull
\* request candidate by another is recorded as resolved by the pull request
C1_Witness ==
    /\ Located
    /\ \E i \in NewlyClosed : \E c \in CommitCandidates(i.number),
          p \in PullCandidatesOf(i), r \in RecordsOf(i.number) :
          /\ c.author # p.user
          /\ IsByPull(r, p)
          /\ Cardinality(PriorCommits(c.author, c.authored_at))
                # Cardinality(PriorCommitsOutsidePull(p))

\* C2: a closed issue with no commit candidate and no pull request candidate
\* has no entry at all in the output.
C2_NoEvidenceNoRecord ==
    Located =>
        \A i \in StoredIssues :
            (/\ i.closed_at # NoTime
             /\ CommitCandidates(i.number) = {}
             /\ PullCandidatesOf(i) = {}) =>
                RecordsOf(i.number) = {}

\* C2, its case: a newly closed issue that a commit mentions without a closing
\* keyword, with a pull request merged in its window that does not refer to
\* it, and the output is empty
C2_Witness ==
    /\ Located
    /\ \E i \in NewlyClosed :
          /\ \E c \in StoredCommits : c.message = SeeIssue1 /\ c.author # None
          /\ CommitCandidates(i.number) = {}
          /\ \E p \in StoredPulls :
                /\ p.merged_at # NoTime
                /\ MergeOffset(i, p) = 0
                /\ p \notin ReferringPulls(i.number)
          /\ resolved_issues = <<>>

\* C3: a newly closed issue referred to by exactly one commit, of author A at
\* time T, and with no pull request candidate, is recorded with resolver A, that
\* commit's hash, and the number of A's commits authored strictly before T.
C3_CommitResolution ==
    Located =>
        \A i \in NewlyClosed :
            \A c \in ReferringCommits(i.number) :
                (/\ ReferringCommits(i.number) = {c}
                 /\ c.author # None
                 /\ PullCandidatesOf(i) = {}) =>
                    /\ RecordsOf(i.number) # {}
                    /\ \A r \in RecordsOf(i.number) :
                          /\ r.resolver = c.author
                          /\ r.resolved_in = CommitHash(c.sha)
                          /\ r.resolver_commit_num
                                = Cardinality(PriorCommits(c.author, c.authored_at))

\* C3, its case: the resolving commit's author has one commit before it
C3_Witness ==
    /\ Located
    /\ \E i \in NewlyClosed : \E c \in StoredCommits, r \in RecordsOf(i.number) :
          /\ ReferringCommits(i.number) = {c}
          /\ PullCandidatesOf(i) = {}
          /\ r.resolved_in = CommitHash(c.sha)
          /\ r.resolver_commit_num = 1
          /\ Cardinality(PriorCommits(c.author, c.authored_at)) = 1

\* C4: the prior-commit count of a record resolved by a pull request is the
\* number of the pull request author's commits authored strictly before the
\* merge, not counting the commits that are part of the pull request.
C4_PullPriorCommits ==
    Located =>
        \A r \in Range(resolved_issues) :
            r.resolved_in.type = "int" =>
                \E p \in StoredPulls :
                    /\ p.number = r.resolved_in.value
                    /\ r.resolver_commit_num
                          = Cardinality(PriorCommitsOutsidePull(p))

\* C4, its case: the author has two commits before the merge, one of them part
\* of the pull request, and the count is 1
C4_Witness ==
    /\ Located
    /\ \E r \in Range(resolved_issues), p \in StoredPulls :
          /\ r.resolved_in = PullNumber(p.number)
          /\ Cardinality(PriorCommits(p.user, p.merged_at)) = 2
          /\ \E c \in PriorCommits(p.user, p.merged_at) :
                c.sha \in get_pull_detail(p.number).commits
          /\ r.resolver_commit_num = 1

\* C5: a record is resolved by a pull request only if the merge lies strictly
\* within one minute of the closure, and a referring pull request merged at
\* most 59 seconds from the closure does resolve the issue; one merged exactly
\* 60 seconds, or 61 seconds, before or after does not.
C5_MergeWindow ==
    Located =>
        \A i \in NewlyClosed :
            /\ \A r \in RecordsOf(i.number) :
                  r.resolved_in.type = "int" =>
                      \E p \in ReferringPulls(i.number) :
                          /\ p.number = r.resolved_in.value
                          /\ p.merged_at # NoTime
                          /\ MergeOffset(i, p) > -OneMinute
                          /\ MergeOffset(i, p) < OneMinute
            /\ \A p \in ReferringPulls(i.number) :
                  (/\ p.merged_at # NoTime
                   /\ MergeOffset(i, p) >= 1 - OneMinute
                   /\ MergeOffset(i, p) <= OneMinute - 1) =>
                      \E r \in RecordsOf(i.number) : r.resolved_in.type = "int"
            /\ \A p \in ReferringPulls(i.number) :
                  (/\ p.merged_at # NoTime
                   /\ \/ MergeOffset(i, p) >= OneMinute
                      \/ MergeOffset(i, p) <= -OneMinute) =>
                      \A r \in RecordsOf(i.number) :
                          r.resolved_in # PullNumber(p.number)

\* C5, its case: a referring pull request merged 59 seconds after the closure
\* resolves the issue
C5_Witness ==
    /\ Located
    /\ \E i \in NewlyClosed :
       \E p \in ReferringPulls(i.number), r \in RecordsOf(i.number) :
          /\ p.merged_at # NoTime
          /\ MergeOffset(i, p) = OneMinute - 1
          /\ r.resolved_in = PullNumber(p.number)

----------------------------------------------------------------------------
(* Claims about the runs of update_repo *)

UniqueOn(docs, key) ==
    \A j, k \in 1..Len(docs) : SameKey(docs[j], docs[k], key) => j = k

\* the last two calls of update_resolved_issues read the same `since` and the
\* same stored issues and commits (the upstream details never change)
ResolvedTwice ==
    /\ Len(last_resolve) = 2
    /\ last_resolve[1].since = last_resolve[2].since
    /\ last_resolve[1].db_issues = last_resolve[2].db_issues
    /\ last_resolve[1].db_commits = last_resolve[2].db_commits

C7_OneRecordPerIssue ==
    /\ UniqueOn(db_resolved, {"owner", "name", "number"})
    /\ UniqueOn(resolved_issues, {"number"})

\* C7, its case: a later run, with another watermark, has written the records
\* of two issues over those an earlier run stored
C7_Witness ==
    /\ Len(last_resolve) = 2
    /\ last_resolve[1].since # last_resolve[2].since
    /\ Len(last_resolve[2].stored) = 2
    /\ Len(last_resolve[1].found) = 2
    /\ last_resolve[1].failed = {}
    /\ Len(db_resolved) = 2

\* the stored watermark: updated_at of the repository document, if any
Watermark == IF db_repo = <<>> THEN NoTime ELSE db_repo[1].updated_at

\* the `since` a run that starts now would use
NextSince == IF Watermark = NoTime THEN RepoCreatedAt ELSE Watermark

\* C8: the stored watermark changes only in the last write of update_repo,
\* after the writes of stars, commits, issues and resolution records, which
\* that step leaves alone; until then it is what the run read, so a run that
\* stops earlier leaves it unchanged and the next run uses the same `since`.
C8_WatermarkWrittenLast ==
    [][/\ Watermark' # Watermark =>
            /\ pc = "save" /\ pc' = "idle"
            /\ UNCHANGED <<db_stars, db_commits, db_issues, db_resolved>>
       /\ <<db_stars, db_commits, db_issues, db_resolved>>'
             # <<db_stars, db_commits, db_issues, db_resolved>> =>
            /\ pc \in {"stars", "commits", "issues", "resolve"}
            /\ Watermark' = Watermark
       /\ (pc' # "idle" => since' = NextSince')
       /\ (pc # "idle" /\ pc # "save" /\ pc' = "idle" => NextSince' = since)]_vars

\* C8, its case: a run that stopped after it wrote resolution records left no
\* watermark, and the next run has started with the same `since`
C8_Witness ==
    /\ pc = "stars"
    /\ runs = 2
    /\ db_resolved # <<>>
    /\ Watermark = NoTime
    /\ since = RepoCreatedAt
    /\ now > RepoCreatedAt

\* C9: a run uses the repository creation time as `since` when no watermark is
\* stored and the stored watermark otherwise; the watermark a run stores is the
\* time the run started at, and is never less than the one it replaces.
C9_Since ==
    [][/\ (pc = "idle" /\ pc' # "idle") =>
            since' = IF db_repo = <<>> THEN get_stats.repo_created_at
                     ELSE db_repo[1].updated_at
       /\ Watermark' # Watermark =>
            /\ Watermark' = repo.updated_at
            /\ Watermark' >= since
            /\ Watermark' >= Watermark]_vars

\* C9, its case: a run started after a completed one uses the time the
\* completed run started at, which is later than the creation of the repository
C9_Witness ==
    /\ pc = "stars"
    /\ db_repo # <<>>
    /\ since = db_repo[1].updated_at
    /\ since > RepoCreatedAt
    /\ now > since

\* C10: when a write of update_resolved_issues raises WriteError, every other
\* record of the batch is stored as returned, the function returns, and
\* update_repo can go on to store the repository document with the new
\* watermark.
C10_WriteErrorIsolated ==
    Located =>
        /\ \A r \in Range(resolved_issues) :
              r.number \notin write_failed => r \in Range(db_resolved)
        /\ ENABLED (SaveRepo /\ db_repo' = <<repo>>)
        /\ repo.updated_at = now

\* C10, its case: of a batch of two records one write failed and the other was
\* stored, and the run has stored the repository document with its watermark
C10_Witness ==
    /\ pc = "idle"
    /\ runs = 1
    /\ Len(last_resolve) = 1
    /\ Len(last_resolve[1].found) = 2
    /\ Cardinality(last_resolve[1].failed) = 1
    /\ Len(db_resolved) = 1
    /\ db_resolved[1].number \notin last_resolve[1].failed
    /\ Watermark = now
    /\ Watermark > last_resolve[1].since

----------------------------------------------------------------------------
(* Claims about the monthly series and count_by_month *)

\* the upstream items, by their time, that exist at the stored watermark
StarredBy(t) == SelectSeq(up_stars, LAMBDA x : x.starred_at <= t)
CommittedBy(t) == SelectSeq(up_commits, LAMBDA c : c.committed_at <= t)
IssuesCreatedBy(t) ==
    SelectSeq(up_issues, LAMBDA i : ~i.is_pull /\ i.created_at <= t)
PullsCreatedBy(t) ==
    SelectSeq(up_issues, LAMBDA i : i.is_pull /\ i.created_at <= t)

\* C11: the monthly series of the stored repository document count, month by
\* month, all the stars, commits, issues and pull requests of the repository
\* from its creation up to the sync that stored the document, those fetched
\* by earlier syncs included.
C11_MonthlySeriesSinceCreation ==
    db_repo # <<>> =>
        LET r == db_repo[1]
        IN  /\ r.monthly_stars
                 = count_by_month(Field(StarredBy(r.updated_at), "starred_at"))
            /\ r.monthly_commits
                 = count_by_month(Field(CommittedBy(r.updated_at), "committed_at"))
            /\ r.monthly_issues
                 = count_by_month(Field(IssuesCreatedBy(r.updated_at), "created_at"))
            /\ r.monthly_pulls
                 = count_by_month(Field(PullsCreatedBy(r.updated_at), "created_at"))

\* date d falls in the month that starts at m
InMonth(d, m) ==
    /\ m \in MonthStarts
    /\ m <= d
    /\ \A m2 \in MonthStarts : m2 > m => d < m2

RECURSIVE SumOfCounts(_)
SumOfCounts(buckets) ==
    IF buckets = <<>> THEN 0
    ELSE Head(buckets).count + SumOfCounts(Tail(buckets))

\* update_stars has returned and the monthly series of the stars is computed
Counted == pc = "commits"

\* C12: count_by_month returns a bucket for a month exactly when an input date
\* falls in it, the bucket's month is the first instant of the month and its
\* count the number of input dates in the month, the buckets are in strictly
\* ascending order of month, and the counts add up to the number of dates.
C12_CountByMonth ==
    Counted =>
        LET dates == Field(up_stars, "starred_at")
            out == repo.monthly_stars
        IN  /\ \A m \in MonthStarts :
                  (\E k \in 1..Len(dates) : InMonth(dates[k], m))
                     <=> (\E j \in 1..Len(out) : out[j].month = m)
            /\ \A j \in 1..Len(out) :
                  /\ out[j].month \in MonthStarts
                  /\ out[j].count
                        = Cardinality({k \in 1..Len(dates) :
                                         InMonth(dates[k], out[j].month)})
            /\ \A j \in 1..(Len(out) - 1) : out[j].month < out[j + 1].month
            /\ SumOfCounts(out) = Len(dates)

\* C12, its case: dates of the third month and of the first, in that order,
\* give the bucket of the first month, with count 2, then that of the third,
\* and none for the second
C12_Witness ==
    /\ Counted
    /\ Field(up_stars, "starred_at") = <<121, 1, 0>>
    /\ repo.monthly_stars = <<[month |-> 0, count |-> 2],
                              [month |-> 120, count |-> 1]>>

----------------------------------------------------------------------------
(* Claims about the content of the records *)

\* the attributes of a ResolvedIssue
RecordFields ==
    {"owner", "name", "number", "created_at", "resolved_at", "resolver",
     "resolved_in", "resolver_commit_num", "events"}

\* C13: every record in the resolved-issue collection has all the attributes
\* of a ResolvedIssue, and its created and resolved times are the times the
\* issue was created and closed at.
C13_RecordCarriesTimes ==
    \A r \in Range(db_resolved) :
        /\ RecordFields \subseteq DOMAIN r
        /\ \E i \in StoredIssues :
              /\ i.number = r.number
              /\ r.created_at = i.created_at
              /\ r.resolved_at = i.closed_at

----------------------------------------------------------------------------
(* Claims about match_issue_numbers *)

\* the text with every letter in lower case
CaseFolded(text) ==
    [k \in 1..Len(text) |->
        IF \E j \in 1..26 : UpperCase[j] = text[k]
        THEN LowerCase[CHOOSE j \in 1..26 : UpperCase[j] = text[k]]
        ELSE text[k]]

\* is the character at position k of s a decimal digit
DigitAt(s, k) == k \in 1..Len(s) /\ \E d \in 1..10 : DecimalDigits[d] = s[k]

\* the positions of s where a closing verb starts that is followed by exactly
\* one space, a `#` and a digit; and the position of that digit
VerbsAt(s, i) ==
    {w \in ClosingVerbs :
        /\ LiteralAt(s, i, w \o <<" ", "#">>)
        /\ DigitAt(s, i + Len(w) + 2)}
ReferencePositions(s) == {i \in 1..Len(s) : VerbsAt(s, i) # {}}
FirstDigit(s, i) == i + Len(CHOOSE w \in VerbsAt(s, i) : TRUE) + 2

\* the integer written by the digits of s from position j on
RECURSIVE Power10(_)
Power10(n) == IF n = 0 THEN 1 ELSE 10 * Power10(n - 1)
RECURSIVE DecimalSum(_, _, _)
DecimalSum(s, j, last) ==
    IF j > last THEN 0
    ELSE ((CHOOSE d \in 1..10 : DecimalDigits[d] = s[j]) - 1) * Power10(last - j)
         + DecimalSum(s, j + 1, last)
IntegerAt(s, j) ==
    DecimalSum(s, j, Max({e \in j..Len(s) : \A k \in j..e : DigitAt(s, k)}))

\* the integers referred to at the positions ps of s, from left to right
RECURSIVE IntegersAt(_, _)
IntegersAt(s, ps) ==
    IF ps = {} THEN <<>>
    ELSE <<IntegerAt(s, FirstDigit(s, Min(ps)))>> \o IntegersAt(s, ps \ {Min(ps)})

\* the closing references of a text, from left to right
ClosingReferences(text) ==
    LET s == CaseFolded(text) IN IntegersAt(s, ReferencePositions(s))

\* the message of the one commit, and what the commit pass read in it
Message == db_commits[1].message
Matched == match_issue_numbers(Message)

\* C14: match_issue_numbers returns, from left to right, the integer of every
\* place of the text where a closing verb, in any case, is followed by one
\* space, `#` and digits, and nothing else; the commit pass makes a record for
\* each of them that is a newly closed issue.  So "Closes #7", "FIXED #7"
\* and "resolve #7" give 7, and "#7 closes" and "closes7" give nothing.
C14_ClosingKeywords ==
    Located =>
        /\ Matched = ClosingReferences(Message)
        /\ {r.number : r \in Range(resolved_issues)}
              = Range(ClosingReferences(Message)) \cap {i.number : i \in NewlyClosed}
        /\ Message \in {<<"C","l","o","s","e","s"," ","#","7">>,
                        <<"F","I","X","E","D"," ","#","7">>,
                        <<"r","e","s","o","l","v","e"," ","#","7">>}
              => Matched = <<7>>
        /\ Message \in {<<"#","7"," ","c","l","o","s","e","s">>,
                        <<"c","l","o","s","e","s","7">>}
              => Matched = <<>>

\* C14, its case: a text with two references, the first in upper case and the
\* second in mixed case, gives both numbers in the order of the text, and both
\* issues are recorded
C14_Witness ==
    /\ Located
    /\ Message = <<"F","I","X","E","D"," ","#","7"," ","a","n","d"," ",
                   "C","l","o","s","e","D"," ","#","1","2">>
    /\ Matched = <<7, 12>>
    /\ Len(resolved_issues) = 2

----------------------------------------------------------------------------
(* Claims about the commit pass *)

\* C15 as stated: a newly closed issue that only a commit without an author
\* refers to, and no pull request, has a record with no resolver and that
\* commit's hash.
C15_NullAuthorCandidate ==
    Located =>
        \A i \in NewlyClosed :
            \A c \in ReferringCommits(i.number) :
                (/\ c.author = None
                 /\ ReferringCommits(i.number) = {c}
                 /\ ReferringPulls(i.number) = {}) =>
                    \E r \in RecordsOf(i.number) :
                        /\ r.resolver = None
                        /\ r.resolved_in = CommitHash(c.sha)

\* C15, amended: a commit without an author yields no candidate.  A newly
\* closed issue that only commits without an author refer to, and no pull
\* request candidate, has no record; and no record has an absent resolver or
\* the hash of a commit without an author.
C15_NullAuthorSkipped ==
    Located =>
        /\ \A i \in NewlyClosed :
              (/\ \A c \in ReferringCommits(i.number) : c.author = None
               /\ PullCandidatesOf(i) = {}) =>
                  RecordsOf(i.number) = {}
        /\ \A r \in Range(resolved_issues) :
              /\ r.resolver # None
              /\ \A c \in StoredCommits :
                    c.author = None => r.resolved_in # CommitHash(c.sha)

\* C15, its case: the only reference to a newly closed issue is in a commit
\* without an author; update_resolved_issues has returned, and the output is
\* empty
C15_Witness ==
    /\ Located
    /\ \E i \in NewlyClosed : \E c \in ReferringCommits(i.number) :
          /\ c.author = None
          /\ ReferringCommits(i.number) = {c}
          /\ ReferringPulls(i.number) = {}
          /\ resolved_issues = <<>>

\* the record of issue n is that of commit c
IsByCommit(r, c) ==
    /\ r.resolver = c.author
    /\ r.resolved_in = CommitHash(c.sha)
    /\ r.resolver_commit_num = Cardinality(PriorCommits(c.author, c.authored_at))

\* the commits of a set with the greatest authored time
Latest(commits) ==
    {c \in commits : \A c2 \in commits : c2.authored_at <= c.authored_at}

\* the place of a commit in the order the store returns the commits in
StorePosition(c) == CHOOSE k \in 1..Len(db_commits) : db_commits[k] = c

\* C16 as stated: with no pull request candidate, the record of a newly closed
\* issue that several commits (here, commits with an author) refer to is that
\* of the referring commit with the greatest authored time, whichever the
\* order of the commits in the store: it is that of every referring commit that
\* no other is later than.
C16_LatestCommitWins ==
    Located =>
        \A i \in NewlyClosed :
            (/\ PullCandidatesOf(i) = {}
             /\ Cardinality(CommitCandidates(i.number)) > 1) =>
                /\ RecordsOf(i.number) # {}
                /\ \A r \in RecordsOf(i.number) :
                      \A c \in Latest(CommitCandidates(i.number)) : IsByCommit(r, c)

\* C16, amended: with no pull request candidate, the record of a newly closed
\* issue is that of the referring commit with an author that has the greatest
\* authored time, whichever the order of the commits in the store when one
\* commit is the latest, and the one the store returns last among several
\* that are the latest together.
C16_LatestAuthoredCommitWins ==
    Located =>
        \A i \in NewlyClosed :
            (PullCandidatesOf(i) = {} /\ CommitCandidates(i.number) # {}) =>
                /\ RecordsOf(i.number) # {}
                /\ \A r \in RecordsOf(i.number) :
                      \E c \in Latest(CommitCandidates(i.number)) :
                          /\ IsByCommit(r, c)
                          /\ \A c2 \in Latest(CommitCandidates(i.number)) :
                                StorePosition(c2) <= StorePosition(c)

\* C16, its case: two commits of two authors refer to the issue, the store
\* returns the later one first, and the record is that of the later one
C16_Witness ==
    /\ Located
    /\ \E i \in NewlyClosed : \E c1, c2 \in CommitCandidates(i.number) :
          /\ PullCandidatesOf(i) = {}
          /\ c1.author # c2.author
          /\ c1.authored_at > c2.authored_at
          /\ StorePosition(c1) < StorePosition(c2)
          /\ \E r \in RecordsOf(i.number) : IsByCommit(r, c1)

----------------------------------------------------------------------------
(* Claims about the input of the resolution engine *)

\* C17: every record update_resolved_issues returns has the number of a stored
\* issue that is not a pull request and was closed on or after `since`: a
\* closing reference to an open issue, to a pull request, to an issue closed
\* before `since` or to a number that is no issue gives no record.
C17_OnlyNewlyClosed ==
    Located =>
        \A r \in Range(resolved_issues) :
            \E i \in Range(db_issues) :
                /\ i.number = r.number
                /\ ~i.is_pull
                /\ i.closed_at # NoTime
                /\ i.closed_at >= since

\* C17, its case: the message refers to 7 and to 12, 7 was closed before
\* `since` and 12 after it, and there is a record of 12 only
C17_Witness ==
    /\ Located
    /\ {7, 12} \subseteq Range(Matched)
    /\ \E i \in StoredIssues :
          i.number = 7 /\ i.closed_at # NoTime /\ i.closed_at < since
    /\ {r.number : r \in Range(resolved_issues)} = {12}

\* the stored commits that the current run did not fetch: an earlier run did
StoredEarlier == {c \in StoredCommits : c.committed_at < since}

\* C18 as stated: no record of a run is resolved by a commit that an earlier
\* run fetched and stored, one authored before the watermark of the run.
C18_CurrentWindowOnly ==
    Located =>
        \A r \in Range(resolved_issues) :
            \A c \in StoredEarlier : r.resolved_in # CommitHash(c.sha)

\* C18, amended: the commit pass reads every stored commit of the repository,
\* whichever run fetched it: a newly closed issue with no pull request
\* candidate that a stored commit with an author refers to has a record, that
\* of the latest such commit, be it authored before the watermark of the run.
C18_AllStoredCommits ==
    Located =>
        \A i \in NewlyClosed :
            (PullCandidatesOf(i) = {} /\ CommitCandidates(i.number) # {}) =>
                /\ RecordsOf(i.number) # {}
                /\ \A r \in RecordsOf(i.number) :
                      \E c \in Latest(CommitCandidates(i.number)) : IsByCommit(r, c)

\* C18, its case: the second run records an issue closed in its window as
\* resolved by a commit that the first run stored and the second did not fetch
C18_Witness ==
    /\ Located
    /\ runs = 2
    /\ since > RepoCreatedAt
    /\ \E r \in Range(resolved_issues), c \in StoredEarlier :
          /\ c \notin Range(get_commits(since))
          /\ IsByCommit(r, c)
          /\ \E i \in NewlyClosed : i.number = r.number

====
